---- MODULE Spec2Model ----
(***************************************************************************)
(* Model of the fee-receipt validator (src/App.tsx): the CSV parser and    *)
(* schema check, the sheet fetch handler and the sequential per-record     *)
(* processing loop, as a state machine over the React component state.     *)
(* Strings the code inspects character by character (header and CSV text)  *)
(* are sequences of one-character strings; messages the code only          *)
(* concatenates or searches are sequences of text fragments.               *)
(***************************************************************************)
EXTENDS Integers, Sequences, FiniteSets, TLC

\* ------------------------------------------------------------------------
\* Characters and the JavaScript string primitives used by the parser
\* ------------------------------------------------------------------------
Lowers ==
  <<"a","b","c","d","e","f","g","h","i","j","k","l","m",
    "n","o","p","q","r","s","t","u","v","w","x","y","z">>

Uppers ==
  <<"A","B","C","D","E","F","G","H","I","J","K","L","M",
    "N","O","P","Q","R","S","T","U","V","W","X","Y","Z">>

Digits ==
  {"0","1","2","3","4","5","6","7","8","9"}

Whitespace ==
  {" ", "\t", "\n", "\r"}

Range(f) ==
  {f[i] : i \in DOMAIN f}

IsAlnum(c) ==
  c \in Range(Lowers) \cup Range(Uppers) \cup Digits

\* String.prototype.toLowerCase / toUpperCase on one character
LowerChar(c) ==
  IF c \in Range(Uppers) THEN Lowers[CHOOSE i \in 1..26 : Uppers[i] = c] ELSE c

UpperChar(c) ==
  IF c \in Range(Lowers) THEN Uppers[CHOOSE i \in 1..26 : Lowers[i] = c] ELSE c

toLowerCase(s) ==
  [i \in 1..Len(s) |-> LowerChar(s[i])]

\* String.prototype.trim
trim(s) ==
  LET keep == {i \in 1..Len(s) : s[i] \notin Whitespace}
  IN IF keep = {} THEN <<>>
     ELSE LET lo == CHOOSE i \in keep : \A j \in keep : i <= j
              hi == CHOOSE i \in keep : \A j \in keep : j <= i
          IN SubSeq(s, lo, hi)

\* s.replace(/"/g, '')
stripQuotes(s) ==
  SelectSeq(s, LAMBDA c : c # "\"")

\* String.prototype.split with a one-character separator
RECURSIVE split(_, _)
split(s, sep) ==
  LET hits == {i \in 1..Len(s) : s[i] = sep}
  IN IF hits = {} THEN <<s>>
     ELSE LET k == CHOOSE i \in hits : \A j \in hits : i <= j
          IN <<SubSeq(s, 1, k - 1)>> \o split(SubSeq(s, k + 1, Len(s)), sep)

\* line.split(/,(?=(?:(?:[^"]*"){2})*[^"]*$)/): a comma separates only when
\* the rest of the line holds an even number of quote characters
QuotesAfter(s, k) ==
  Cardinality({i \in (k + 1)..Len(s) : s[i] = "\""})

\* variant: line.split(',')
splitOutsideQuotes_everyComma(s) ==
  split(s, ",")

RECURSIVE splitOutsideQuotes(_)
splitOutsideQuotes(s) ==
  LET hits == {i \in 1..Len(s) : s[i] = "," /\ QuotesAfter(s, i) % 2 = 0}
  IN IF hits = {} THEN <<s>>
     ELSE LET k == CHOOSE i \in hits : \A j \in hits : i <= j
          IN <<SubSeq(s, 1, k - 1)>> \o splitOutsideQuotes(SubSeq(s, k + 1, Len(s)))

\* s.replace(/[^a-zA-Z0-9]+(.)/g, (_, chr) => chr.toUpperCase()), scanning
\* from position i: a maximal run of non-alphanumerics and the character
\* after it become that character in upper case; a run that reaches the end
\* of the string gives up its last character to the group, and a single
\* trailing non-alphanumeric does not match at all
RunEnd(s, i) ==
  LET stops == {j \in i..Len(s) : IsAlnum(s[j])}
  IN IF stops = {} THEN Len(s) + 1
     ELSE CHOOSE j \in stops : \A k \in stops : j <= k

RECURSIVE camelFrom(_, _)
camelFrom(s, i) ==
  IF i > Len(s) THEN <<>>
  ELSE IF IsAlnum(s[i]) THEN <<s[i]>> \o camelFrom(s, i + 1)
  ELSE LET j == RunEnd(s, i)
       IN IF j <= Len(s) THEN <<UpperChar(s[j])>> \o camelFrom(s, j + 1)
          ELSE IF j - i >= 2 THEN <<UpperChar(s[Len(s)])>>
          ELSE <<s[i]>>

normalizeHeader(header) ==
  camelFrom(toLowerCase(trim(header)), 1)

\* ------------------------------------------------------------------------
\* Column keys and the sheet texts the fetch can return
\* ------------------------------------------------------------------------
K_name ==
  <<"n","a","m","e">>

K_amount ==
  <<"a","m","o","u","n","t">>

K_utr ==
  <<"u","t","r">>

K_paymentDate ==
  <<"p","a","y","m","e","n","t","D","a","t","e">>

K_campusName ==
  <<"c","a","m","p","u","s","N","a","m","e">>

K_paymentScreenshotUrl ==
  <<"p","a","y","m","e","n","t","S","c","r","e","e","n","s","h","o","t","U","r","l">>

K_userId ==
  <<"u","s","e","r","I","d">>

HeaderLine ==
  <<"n","a","m","e",",","a","m","o","u","n","t",",","U","T","R",",","p","a","y","m","e","n","t","_","d","a","t","e",",","c","a","m","p","u","s","_","n","a","m","e",",","p","a","y","m","e","n","t","_","s","c","r","e","e","n","s","h","o","t","_","u","r","l">>

TextThree ==
  <<"n","a","m","e",",","a","m","o","u","n","t",",","U","T","R",",","p","a","y","m","e","n","t","_","d","a","t","e",",","c","a","m","p","u","s","_","n","a","m","e",",","p","a","y","m","e","n","t","_","s","c","r","e","e","n","s","h","o","t","_","u","r","l","\n","A",",","1",",","x",",","d",",","c",",","u","\n","B",",","2",",","y",",","d",",","c",",","u","\n","C",",","3">>

TextTwo ==
  <<"n","a","m","e",",","a","m","o","u","n","t",",","U","T","R",",","p","a","y","m","e","n","t","_","d","a","t","e",",","c","a","m","p","u","s","_","n","a","m","e",",","p","a","y","m","e","n","t","_","s","c","r","e","e","n","s","h","o","t","_","u","r","l","\n","A",",","1",",","x",",","d",",","c",","," ","\n","\"","D","o","e",","," ","J","\"",",","2",",","y",",","d",",","c",",","u","\n">>

TextCamel ==
  <<"n","a","m","e",",","a","m","o","u","n","t",",","u","t","r",",","p","a","y","m","e","n","t","D","a","t","e",",","c","a","m","p","u","s","N","a","m","e",",","p","a","y","m","e","n","t","S","c","r","e","e","n","s","h","o","t","U","r","l","\n","A",",","1",",","x",",","d",",","c",",","u">>

TextNoUtr ==
  <<"n","a","m","e",",","a","m","o","u","n","t",",","p","a","y","m","e","n","t","_","d","a","t","e",",","c","a","m","p","u","s","_","n","a","m","e",",","p","a","y","m","e","n","t","_","s","c","r","e","e","n","s","h","o","t","_","u","r","l","\n","A",",","1",",","d",",","c",",","u">>

TextHeaderOnly ==
  <<"n","a","m","e",",","a","m","o","u","n","t",",","U","T","R",",","p","a","y","m","e","n","t","_","d","a","t","e",",","c","a","m","p","u","s","_","n","a","m","e",",","p","a","y","m","e","n","t","_","s","c","r","e","e","n","s","h","o","t","_","u","r","l","\n">>

TextBlank ==
  <<" ","\n">>

requiredColumns ==
  <<K_name, K_amount, K_utr, K_paymentDate, K_campusName, K_paymentScreenshotUrl>>

SheetTexts ==
  {TextThree, TextTwo, TextCamel, TextNoUtr, TextHeaderOnly, TextBlank}

\* ------------------------------------------------------------------------
\* Bounds
\* ------------------------------------------------------------------------
\* invocations of handleProcessData that can be alive at once
MaxInvocations == 2

Invocations == 1..MaxInvocations

\* new Date().toISOString().replace('T', ' ').substring(0, 19)
Timestamps == {"2025-01-01 00:00:00"}

\* ------------------------------------------------------------------------
\* Messages: a message is a sequence of text fragments; a fragment is either
\* the quote character alone or a piece of text without quotes
\* ------------------------------------------------------------------------
InvalidApiKey == "Invalid API Key"

\* errorMessage.includes(needle)
includes(message, needle) ==
  \E i \in 1..Len(message) : message[i] = needle

\* the error state: null, a message, or the missing-columns message with the
\* joined column list
NoError == [kind |-> "none"]

Message(text) == [kind |-> "message", text |-> text]

MissingColumnsError(columns) == [kind |-> "missingColumns", columns |-> columns]

EmptyDataText == <<"The fetched data is empty or invalid. Please check the Google Sheet.">>

EmptyFileText == <<"The file is empty or could not be parsed correctly.">>

NoUrlText == <<"Please enter a Google Sheet URL.">>

NoDataText == <<"No data to process. Please fetch data from a Google Sheet first.">>

MissingUrlText == <<"\"", "paymentScreenshotUrl", "\"", " is missing or empty for this row.">>

UnknownErrorText == <<"An unknown error occurred.">>

CriticalBanner(errorMessage) ==
  <<"Critical Error: ">> \o errorMessage
    \o <<" Processing has been stopped. Please check your application configuration.">>

CriticalOutcomeText(errorMessage) ==
  <<"Processing stopped due to critical error: ">> \o errorMessage

\* thrown values: an Error with a message, or something that is not an Error
ErrorObject(message) == [isError |-> TRUE, message |-> message]

NonError == [isError |-> FALSE]

\* err instanceof Error ? err.message : 'An unknown error occurred.'
errorMessageOf(thrown) ==
  IF thrown.isError THEN thrown.message ELSE UnknownErrorText

\* ------------------------------------------------------------------------
\* parseAndValidateCsv
\* ------------------------------------------------------------------------
\* values[index]?.trim().replace(/"/g, '') || ''
cellValue(values, index) ==
  IF index <= Len(values) THEN stripQuotes(trim(values[index])) ELSE <<>>

\* variant: only the headers that have a field on the line become keys
rowObject_presentOnly(headers, values) ==
  [h \in {headers[i] : i \in 1..(IF Len(values) < Len(headers) THEN Len(values) ELSE Len(headers))} |->
     cellValue(values, CHOOSE i \in 1..Len(headers) :
                         /\ headers[i] = h
                         /\ \A j \in 1..Len(headers) : headers[j] = h => j <= i)]

\* headers.reduce((obj, header, index) => { obj[header] = ...; return obj }, {})
rowObject(headers, values) ==
  [h \in Range(headers) |->
     cellValue(values, CHOOSE i \in 1..Len(headers) :
                         /\ headers[i] = h
                         /\ \A j \in 1..Len(headers) : headers[j] = h => j <= i)]

parseHeaders(line) ==
  LET cells == split(line, ",")
  IN [i \in 1..Len(cells) |-> normalizeHeader(stripQuotes(cells[i]))]

parseRows(headers, lines) ==
  [i \in 1..(Len(lines) - 1) |-> rowObject(headers, splitOutsideQuotes(lines[i + 1]))]

\* variant: find() in place of filter(): only the first missing column
missingColumns_firstOnly(firstRow) ==
  LET missing == SelectSeq(requiredColumns, LAMBDA col : col \notin DOMAIN firstRow)
  IN  IF Len(missing) = 0 THEN missing ELSE <<missing[1]>>

\* requiredColumns.filter(col => !firstRow.hasOwnProperty(col))
missingColumns(firstRow) ==
  SelectSeq(requiredColumns, LAMBDA col : col \notin DOMAIN firstRow)

\* the outcome of parseAndValidateCsv: the exit it takes, whether setError is
\* called and with what, and the value given to setProcessedData
parseAndValidateCsv(csvText) ==
  LET lines == split(trim(csvText), "\n")
  IN IF Len(lines) < 2
     THEN [exit |-> "empty", error |-> Message(EmptyDataText), data |-> <<>>]
     ELSE LET headers == parseHeaders(lines[1])
              data == parseRows(headers, lines)
          IN IF Len(data) = 0
             THEN [exit |-> "empty", error |-> Message(EmptyFileText), data |-> <<>>]
             ELSE IF Len(missingColumns(data[1])) > 0
             THEN [exit |-> "missing",
                   error |-> MissingColumnsError(missingColumns(data[1])),
                   data |-> <<>>]
             ELSE [exit |-> "parsed", error |-> NoError, data |-> data]

\* ------------------------------------------------------------------------
\* Inputs from the environment
\* ------------------------------------------------------------------------
SheetUrls == {"", "sheet"}

\* what fetch(sheetUrl) can do: reject, answer with a non-ok status, or
\* answer ok with a body
SheetFetchOutcomes ==
  {[kind |-> "rejected", thrown |-> ErrorObject(<<"Failed to fetch">>)],
   [kind |-> "status", status |-> "404"]}
  \cup {[kind |-> "ok", body |-> t] : t \in SheetTexts}

SheetStatusText(status) ==
  <<"Failed to fetch data (Status: ", status,
    "). Ensure the URL is correct and the sheet is published to the web.">>

StatusTexts == {"Not Found", InvalidApiKey}

\* what fetch(url) and the FileReader can do inside getBase64FromUrl
ImageFetchOutcomes ==
  {[kind |-> "rejected"], [kind |-> "readerError"], [kind |-> "ok"]}
  \cup {[kind |-> "status", statusText |-> s] : s \in StatusTexts}

NoReply == [state |-> "pending"]

Fulfilled(value) == [state |-> "fulfilled", value |-> value]

Rejected(thrown) == [state |-> "rejected", thrown |-> thrown]

\* the promise getBase64FromUrl returns, settled
getBase64FromUrl(outcome) ==
  CASE outcome.kind = "rejected" -> Rejected(ErrorObject(<<"Failed to fetch">>))
    [] outcome.kind = "status" ->
         Rejected(ErrorObject(<<"Failed to fetch image from URL: ", outcome.statusText>>))
    [] outcome.kind = "readerError" -> Rejected(NonError)
    [] outcome.kind = "ok" -> Fulfilled([base64 |-> "b64", mimeType |-> "image/png"])

\* the verdicts and failures validateReceipt can settle with
\* the third literal of the ValidationResponse type holds an en dash (U+2013)
NotReadableStatus == "Not Readable [U+2013] Human Review Required"

ValidationResponses ==
  {[Validation_Status |-> "Receipt Validated", Observations |-> <<"ok">>],
   [Validation_Status |-> "Mismatch Found", Observations |-> <<"amount ", "\"", "2", "\"">>],
   [Validation_Status |-> NotReadableStatus, Observations |-> <<>>]}

ValidateFailures ==
  {ErrorObject(<<InvalidApiKey, ". Please check your configuration.">>),
   ErrorObject(<<"The service returned no result.">>),
   ErrorObject(<<>>),
   NonError}

ValidateOutcomes ==
  {Fulfilled(v) : v \in ValidationResponses} \cup {Rejected(e) : e \in ValidateFailures}

\* ------------------------------------------------------------------------
\* State
\* ------------------------------------------------------------------------
VARIABLES
  sheetUrl,         \* useState: the URL input
  processedData,    \* useState: the accepted records
  results,          \* useState: the published outcome list
  isLoading,        \* useState: a run is active
  isFetchingSheet,  \* useState: a sheet fetch is active
  error,            \* useState: the error banner
  progress,         \* useState: {current, total}
  fetchPc,          \* where the latest handleFetchData invocation is or returned
  response,         \* the body of the sheet response awaiting response.text()
  pc,               \* per handleProcessData invocation: where it is or returned
  rows,             \* per invocation: the processedData its closure captured
  index,            \* per invocation: the loop index
  newResults,       \* per invocation: the local outcome list
  reply,            \* per invocation: the settled promise it is about to resume on
  startedFrom       \* history, per invocation: where it was when its latest run started

uiVars == <<sheetUrl, processedData, results, isLoading, isFetchingSheet, error, progress>>

fetchVars == <<fetchPc, response>>

runVars == <<pc, rows, index, newResults, reply, startedFrom>>

vars == <<uiVars, fetchVars, runVars>>

Running == {"loop", "image", "validate"}

NoResponse == <<>>

\* a handler is between two awaits (JavaScript runs it to the next await
\* before any other event is handled)
Busy ==
  \E p \in Invocations : pc[p] = "loop" \/ reply[p] # NoReply

Init ==
  /\ sheetUrl = ""
  /\ processedData = <<>>
  /\ results = <<>>
  /\ isLoading = FALSE
  /\ isFetchingSheet = FALSE
  /\ error = NoError
  /\ progress = [current |-> 0, total |-> 0]
  /\ fetchPc = "none"
  /\ response = NoResponse
  /\ pc = [p \in Invocations |-> "none"]
  /\ rows = [p \in Invocations |-> <<>>]
  /\ index = [p \in Invocations |-> 0]
  /\ newResults = [p \in Invocations |-> <<>>]
  /\ reply = [p \in Invocations |-> NoReply]
  /\ startedFrom = [p \in Invocations |-> "none"]

\* ------------------------------------------------------------------------
\* The URL input and handleFetchData
\* ------------------------------------------------------------------------
setSheetUrl(u) ==
  /\ ~Busy
  /\ u # sheetUrl
  /\ sheetUrl' = u
  /\ UNCHANGED <<processedData, results, isLoading, isFetchingSheet, error, progress>>
  /\ UNCHANGED <<fetchVars, runVars>>

\* the Fetch Data button is enabled, or the Refresh button is shown
FetchButtonEnabled ==
  \/ ~(isFetchingSheet \/ sheetUrl = "")
  \/ Len(processedData) > 0 /\ ~isFetchingSheet

handleFetchDataNoUrl ==
  /\ ~Busy
  /\ FetchButtonEnabled
  /\ sheetUrl = ""
  /\ error' = Message(NoUrlText)
  /\ fetchPc' = "noUrl"
  /\ UNCHANGED <<sheetUrl, processedData, results, isLoading, isFetchingSheet, progress>>
  /\ UNCHANGED <<response, runVars>>

handleFetchData ==
  /\ ~Busy
  /\ FetchButtonEnabled
  /\ sheetUrl # ""
  /\ isFetchingSheet' = TRUE
  /\ error' = NoError
  /\ processedData' = <<>>
  /\ results' = <<>>
  /\ fetchPc' = "fetch"
  /\ UNCHANGED <<sheetUrl, isLoading, progress, response, runVars>>

\* the catch and finally blocks of handleFetchData
fetchCatch(thrown) ==
  /\ error' = Message(<<"Failed to fetch from URL. ">> \o errorMessageOf(thrown))
  /\ processedData' = <<>>
  /\ isFetchingSheet' = FALSE
  /\ fetchPc' = "failed"
  /\ response' = NoResponse
  /\ UNCHANGED <<sheetUrl, results, isLoading, progress, runVars>>

\* await fetch(sheetUrl) settles
fetchSettles(outcome) ==
  /\ ~Busy
  /\ fetchPc = "fetch"
  /\ CASE outcome.kind = "rejected" -> fetchCatch(outcome.thrown)
       [] outcome.kind = "status" ->
            fetchCatch(ErrorObject(SheetStatusText(outcome.status)))
       [] outcome.kind = "ok" ->
            /\ fetchPc' = "text"
            /\ response' = outcome.body
            /\ UNCHANGED <<uiVars, runVars>>

\* await response.text() rejects
fetchTextFails ==
  /\ ~Busy
  /\ fetchPc = "text"
  /\ fetchCatch(ErrorObject(<<"Failed to fetch">>))

\* await response.text() resolves: parseAndValidateCsv(text), then finally
fetchText ==
  /\ ~Busy
  /\ fetchPc = "text"
  /\ LET parsed == parseAndValidateCsv(response)
     IN /\ error' = IF parsed.exit = "parsed" THEN error ELSE parsed.error
        /\ processedData' = parsed.data
        /\ fetchPc' = parsed.exit
  /\ isFetchingSheet' = FALSE
  /\ response' = NoResponse
  /\ UNCHANGED <<sheetUrl, results, isLoading, progress, runVars>>

\* ------------------------------------------------------------------------
\* handleProcessData
\* ------------------------------------------------------------------------
\* the Process button is enabled on isLoading alone; the handler tests
\* processedData.length itself
handleProcessDataNoData ==
  /\ ~Busy
  /\ ~isLoading
  /\ Len(processedData) = 0
  /\ error' = Message(NoDataText)
  /\ UNCHANGED <<sheetUrl, processedData, results, isLoading, isFetchingSheet, progress>>
  /\ UNCHANGED <<fetchVars, runVars>>

\* the invocation record a new call of handleProcessData gets
FreeInvocation(p) ==
  /\ pc[p] \notin Running
  /\ \A q \in Invocations : pc[q] \notin Running => p <= q

\* variant: the button ignores isLoading
ProcessButtonEnabled_always ==
  TRUE

\* variant: the button is disabled on isFetchingSheet in place of isLoading
ProcessButtonEnabled_whileFetching ==
  ~isFetchingSheet

\* the Process button is not disabled by isLoading
ProcessButtonEnabled ==
  ~isLoading

\* variant: the start of a run without setError(null)
handleProcessData_keepsError(p) ==
  /\ ~Busy
  /\ ProcessButtonEnabled
  /\ Len(processedData) > 0
  /\ FreeInvocation(p)
  /\ isLoading' = TRUE
  /\ results' = <<>>
  /\ progress' = [current |-> 0, total |-> Len(processedData)]
  /\ pc' = [pc EXCEPT ![p] = "loop"]
  /\ rows' = [rows EXCEPT ![p] = processedData]
  /\ index' = [index EXCEPT ![p] = 0]
  /\ newResults' = [newResults EXCEPT ![p] = <<>>]
  /\ reply' = [reply EXCEPT ![p] = NoReply]
  /\ startedFrom' = [startedFrom EXCEPT ![p] = pc[p]]
  /\ UNCHANGED <<sheetUrl, processedData, isFetchingSheet, error, fetchVars>>

\* lines 109-119: the start of a run, up to the head of the loop
handleProcessData(p) ==
  /\ ~Busy
  /\ ProcessButtonEnabled
  /\ Len(processedData) > 0
  /\ FreeInvocation(p)
  /\ isLoading' = TRUE
  /\ error' = NoError
  /\ results' = <<>>
  /\ progress' = [current |-> 0, total |-> Len(processedData)]
  /\ pc' = [pc EXCEPT ![p] = "loop"]
  /\ rows' = [rows EXCEPT ![p] = processedData]
  /\ index' = [index EXCEPT ![p] = 0]
  /\ newResults' = [newResults EXCEPT ![p] = <<>>]
  /\ reply' = [reply EXCEPT ![p] = NoReply]
  /\ startedFrom' = [startedFrom EXCEPT ![p] = pc[p]]
  /\ UNCHANGED <<sheetUrl, processedData, isFetchingSheet, fetchVars>>

\* the record of the current iteration (index is zero-based)
row(p) ==
  rows[p][index[p] + 1]

\* variant: row.paymentScreenshotUrl === undefined
urlMissing_absentOnly(r) ==
  K_paymentScreenshotUrl \notin DOMAIN r

\* !row.paymentScreenshotUrl || row.paymentScreenshotUrl.trim() === ''
urlMissing(r) ==
  \/ K_paymentScreenshotUrl \notin DOMAIN r
  \/ r[K_paymentScreenshotUrl] = <<>>
  \/ trim(r[K_paymentScreenshotUrl]) = <<>>

\* variant: the error result also carries a validation field
errorResult_bothFields(r, errorMessage, t) ==
  [originalData |-> r,
   validation |-> [Validation_Status |-> "Processing Error", Observations |-> errorMessage],
   error |-> errorMessage,
   timestamp |-> t]

successResult(r, validation, t) ==
  [originalData |-> r, validation |-> validation, timestamp |-> t]

errorResult(r, errorMessage, t) ==
  [originalData |-> r, error |-> errorMessage, timestamp |-> t]

\* variant: index === 1
isCritical_offByOne(i, errorMessage) ==
  i = 1 /\ includes(errorMessage, InvalidApiKey)

\* variant: the index test is left out
isCritical_anyIndex(i, errorMessage) ==
  includes(errorMessage, InvalidApiKey)

\* index === 0 && errorMessage.includes('Invalid API Key')
isCritical(i, errorMessage) ==
  i = 0 /\ includes(errorMessage, InvalidApiKey)

\* variant: setResults([result]) in place of setResults([...newResults])
pushResult_publishLast(p, result) ==
  /\ newResults' = [newResults EXCEPT ![p] = Append(@, result)]
  /\ results' = <<result>>
  /\ IF index[p] + 1 < Len(rows[p])
     THEN /\ pc' = [pc EXCEPT ![p] = "loop"]
          /\ index' = [index EXCEPT ![p] = @ + 1]
          /\ UNCHANGED <<isLoading>>
     ELSE /\ pc' = [pc EXCEPT ![p] = "completed"]
          /\ isLoading' = FALSE
          /\ UNCHANGED <<index>>
  /\ UNCHANGED <<error>>

\* variant: the loop leaves one record early
pushResult_leavesEarly(p, result) ==
  /\ newResults' = [newResults EXCEPT ![p] = Append(@, result)]
  /\ results' = newResults'[p]
  /\ IF index[p] + 1 < Len(rows[p]) - 1
     THEN /\ pc' = [pc EXCEPT ![p] = "loop"]
          /\ index' = [index EXCEPT ![p] = @ + 1]
          /\ UNCHANGED <<isLoading>>
     ELSE /\ pc' = [pc EXCEPT ![p] = "completed"]
          /\ isLoading' = FALSE
          /\ UNCHANGED <<index>>
  /\ UNCHANGED <<error>>

\* lines 165-169: push the result, publish the list, and go to the next
\* record or leave the loop
pushResult(p, result) ==
  /\ newResults' = [newResults EXCEPT ![p] = Append(@, result)]
  /\ results' = newResults'[p]
  /\ IF index[p] + 1 < Len(rows[p])
     THEN /\ pc' = [pc EXCEPT ![p] = "loop"]
          /\ index' = [index EXCEPT ![p] = @ + 1]
          /\ UNCHANGED <<isLoading>>
     ELSE /\ pc' = [pc EXCEPT ![p] = "completed"]
          /\ isLoading' = FALSE
          /\ UNCHANGED <<index>>
  /\ UNCHANGED <<error>>

\* variant: a failure that is not critical is swallowed without an outcome
catchBlock_noOutcome(p, thrown, t) ==
  LET errorMessage == errorMessageOf(thrown)
  IN IF isCritical(index[p], errorMessage)
     THEN /\ error' = Message(CriticalBanner(errorMessage))
          /\ isLoading' = FALSE
          /\ results' = <<errorResult(row(p), CriticalOutcomeText(errorMessage), t)>>
          /\ pc' = [pc EXCEPT ![p] = "aborted"]
          /\ UNCHANGED <<index, newResults>>
     ELSE /\ results' = newResults[p]
          /\ IF index[p] + 1 < Len(rows[p])
             THEN /\ pc' = [pc EXCEPT ![p] = "loop"]
                  /\ index' = [index EXCEPT ![p] = @ + 1]
                  /\ UNCHANGED <<isLoading>>
             ELSE /\ pc' = [pc EXCEPT ![p] = "completed"]
                  /\ isLoading' = FALSE
                  /\ UNCHANGED <<index>>
          /\ UNCHANGED <<error, newResults>>

\* variant: the short-circuit returns without setIsLoading(false)
catchBlock_keepsLoading(p, thrown, t) ==
  LET errorMessage == errorMessageOf(thrown)
  IN IF isCritical(index[p], errorMessage)
     THEN /\ error' = Message(CriticalBanner(errorMessage))
          /\ results' = <<errorResult(row(p), CriticalOutcomeText(errorMessage), t)>>
          /\ pc' = [pc EXCEPT ![p] = "aborted"]
          /\ UNCHANGED <<isLoading, index, newResults>>
     ELSE pushResult(p, errorResult(row(p), errorMessage, t))

\* lines 145-164: the catch block
catchBlock(p, thrown, t) ==
  LET errorMessage == errorMessageOf(thrown)
  IN IF isCritical(index[p], errorMessage)
     THEN /\ error' = Message(CriticalBanner(errorMessage))
          /\ isLoading' = FALSE
          /\ results' = <<errorResult(row(p), CriticalOutcomeText(errorMessage), t)>>
          /\ pc' = [pc EXCEPT ![p] = "aborted"]
          /\ UNCHANGED <<index, newResults>>
     ELSE pushResult(p, errorResult(row(p), errorMessage, t))

\* lines 122-128: the head of an iteration, up to the call of getBase64FromUrl
loopIteration(p, t) ==
  /\ pc[p] = "loop"
  /\ progress' = [current |-> index[p] + 1, total |-> Len(rows[p])]
  /\ IF urlMissing(row(p))
     THEN catchBlock(p, ErrorObject(MissingUrlText), t)
     ELSE /\ pc' = [pc EXCEPT ![p] = "image"]
          /\ UNCHANGED <<results, isLoading, error, index, newResults>>
  /\ UNCHANGED <<sheetUrl, processedData, isFetchingSheet, fetchVars, rows, reply, startedFrom>>

\* the promise of getBase64FromUrl settles
getBase64Settles(p, outcome) ==
  /\ ~Busy
  /\ pc[p] = "image"
  /\ reply' = [reply EXCEPT ![p] = getBase64FromUrl(outcome)]
  /\ UNCHANGED <<uiVars, fetchVars, pc, rows, index, newResults, startedFrom>>

\* lines 128-139: resume with the image, build studentDataForApi and call
\* validateReceipt, or enter the catch block
resumeAfterImage(p, t) ==
  /\ pc[p] = "image"
  /\ reply[p] # NoReply
  /\ reply' = [reply EXCEPT ![p] = NoReply]
  /\ IF reply[p].state = "fulfilled"
     THEN /\ pc' = [pc EXCEPT ![p] = "validate"]
          /\ UNCHANGED <<results, isLoading, error, index, newResults>>
     ELSE catchBlock(p, reply[p].thrown, t)
  /\ UNCHANGED <<sheetUrl, processedData, isFetchingSheet, progress, fetchVars, rows, startedFrom>>

\* the promise of validateReceipt settles
validateReceiptSettles(p, outcome) ==
  /\ ~Busy
  /\ pc[p] = "validate"
  /\ reply' = [reply EXCEPT ![p] = outcome]
  /\ UNCHANGED <<uiVars, fetchVars, pc, rows, index, newResults, startedFrom>>

\* lines 139-144: resume with the verdict, or enter the catch block
resumeAfterValidate(p, t) ==
  /\ pc[p] = "validate"
  /\ reply[p] # NoReply
  /\ reply' = [reply EXCEPT ![p] = NoReply]
  /\ IF reply[p].state = "fulfilled"
     THEN pushResult(p, successResult(row(p), reply[p].value, t))
     ELSE catchBlock(p, reply[p].thrown, t)
  /\ UNCHANGED <<sheetUrl, processedData, isFetchingSheet, progress, fetchVars, rows, startedFrom>>

\* ------------------------------------------------------------------------
\* chartData and copyResultsForSheet: projections of the published list
\* ------------------------------------------------------------------------
\* the literal of the third case of the switch: in place of the en dash it
\* holds the three characters U+00E2 U+20AC U+201C
ReviewCaseLiteral == "Not Readable [U+00E2][U+20AC][U+201C] Human Review Required"

\* the reducer of chartData; res.error counts when it is a non-empty string
tallyStep(acc, res) ==
  IF "error" \in DOMAIN res /\ res.error # <<>>
  THEN [acc EXCEPT !.error = @ + 1]
  ELSE IF "validation" \in DOMAIN res
  THEN CASE res.validation.Validation_Status = "Receipt Validated" ->
              [acc EXCEPT !.validated = @ + 1]
         [] res.validation.Validation_Status = "Mismatch Found" ->
              [acc EXCEPT !.mismatch = @ + 1]
         [] res.validation.Validation_Status = ReviewCaseLiteral ->
              [acc EXCEPT !.review = @ + 1]
         [] OTHER -> acc
  ELSE acc

RECURSIVE tallyFrom(_, _, _)
tallyFrom(list, k, acc) ==
  IF k > Len(list) THEN acc ELSE tallyFrom(list, k + 1, tallyStep(acc, list[k]))

tallyCounts(list) ==
  tallyFrom(list, 1, [validated |-> 0, mismatch |-> 0, review |-> 0, error |-> 0])

chartData(list) ==
  IF Len(list) = 0 THEN <<>>
  ELSE LET counts == tallyCounts(list)
       IN SelectSeq(<<[name |-> "Validated", value |-> counts.validated, color |-> "#22c55e"],
                      [name |-> "Mismatch", value |-> counts.mismatch, color |-> "#ef4444"],
                      [name |-> "Needs Review", value |-> counts.review, color |-> "#f59e0b"],
                      [name |-> "Error", value |-> counts.error, color |-> "#6b7280"]>>,
                    LAMBDA item : item.value > 0)

\* variant: replace('"', '""') without the g flag doubles the first quote only
escapeQuotes_firstOnly(text) ==
  LET hits == {i \in 1..Len(text) : text[i] = "\""}
  IN IF hits = {} THEN text
     ELSE LET k == CHOOSE i \in hits : \A j \in hits : i <= j
          IN SubSeq(text, 1, k) \o <<"\"">> \o SubSeq(text, k + 1, Len(text))

\* text.replace(/"/g, '""')
RECURSIVE escapeQuotes(_)
escapeQuotes(text) ==
  IF text = <<>> THEN <<>>
  ELSE (IF Head(text) = "\"" THEN <<"\"", "\"">> ELSE <<Head(text)>>)
         \o escapeQuotes(Tail(text))

\* one row of copyResultsForSheet: the three columns and the joined line
compactRow(res) ==
  LET status ==
        IF "validation" \in DOMAIN res /\ res.validation.Validation_Status # ""
        THEN res.validation.Validation_Status
        ELSE "Processing Error"
      observations ==
        escapeQuotes(IF "validation" \in DOMAIN res /\ res.validation.Observations # <<>>
                     THEN res.validation.Observations
                     ELSE IF "error" \in DOMAIN res /\ res.error # <<>>
                     THEN res.error
                     ELSE <<>>)
  IN [status |-> status,
      observations |-> observations,
      timestamp |-> res.timestamp,
      line |-> <<status, "\t", "\"">> \o observations \o <<"\"", "\t", res.timestamp>>]

\* the rows copyResultsForSheet builds from the published list (none when
\* the list is empty)
copyResultsForSheet(list) ==
  [k \in 1..Len(list) |-> compactRow(list[k])]

\* ------------------------------------------------------------------------
\* Specification
\* ------------------------------------------------------------------------
Next ==
  \/ \E u \in SheetUrls : setSheetUrl(u)
  \/ handleFetchDataNoUrl
  \/ handleFetchData
  \/ \E outcome \in SheetFetchOutcomes : fetchSettles(outcome)
  \/ fetchTextFails
  \/ fetchText
  \/ handleProcessDataNoData
  \/ \E p \in Invocations : handleProcessData(p)
  \/ \E p \in Invocations, t \in Timestamps : loopIteration(p, t)
  \/ \E p \in Invocations, outcome \in ImageFetchOutcomes : getBase64Settles(p, outcome)
  \/ \E p \in Invocations, t \in Timestamps : resumeAfterImage(p, t)
  \/ \E p \in Invocations, outcome \in ValidateOutcomes : validateReceiptSettles(p, outcome)
  \/ \E p \in Invocations, t \in Timestamps : resumeAfterValidate(p, t)

Spec == Init /\ [][Next]_vars


\* every awaited collaborator call settles, and a handler that can resume
\* does resume
FairSpec ==
  /\ Spec
  /\ WF_vars(\E p \in Invocations, t \in Timestamps : loopIteration(p, t))
  /\ WF_vars(\E p \in Invocations, outcome \in ImageFetchOutcomes : getBase64Settles(p, outcome))
  /\ WF_vars(\E p \in Invocations, t \in Timestamps : resumeAfterImage(p, t))
  /\ WF_vars(\E p \in Invocations, outcome \in ValidateOutcomes : validateReceiptSettles(p, outcome))
  /\ WF_vars(\E p \in Invocations, t \in Timestamps : resumeAfterValidate(p, t))

\* ------------------------------------------------------------------------
\* Properties
\* ------------------------------------------------------------------------
\* the record invocation p is working on has just failed, and with what
FailedNow(p) ==
  \/ pc[p] = "loop" /\ urlMissing(row(p))
  \/ pc[p] \in {"image", "validate"} /\ reply[p].state = "rejected"

FailureText(p) ==
  IF pc[p] = "loop" THEN MissingUrlText ELSE errorMessageOf(reply[p].thrown)

IsErrorOutcome(r) ==
  "error" \in DOMAIN r /\ "validation" \notin DOMAIN r

\* the step ends the work on the current record of p with an outcome
CompletesRecord(p) ==
  /\ pc[p] \in Running
  /\ \/ index'[p] = index[p] + 1
     \/ pc'[p] = "completed"

\* C1: when record 0 fails with a description containing 'Invalid API Key'
\* the run is aborted in that step: the published list is exactly the one
\* record-0 failure marked as run-stopping, the critical banner is set, the
\* running flag is cleared; an aborted run never went past index 0.
C1_AbortOnFirstRecord ==
  [][\A p \in Invocations :
       /\ (/\ FailedNow(p)
           /\ index[p] = 0
           /\ includes(FailureText(p), InvalidApiKey))
          => /\ pc'[p] = "aborted"
             /\ Len(results') = 1
             /\ IsErrorOutcome(results'[1])
             /\ results'[1].originalData = rows[p][1]
             /\ results'[1].error =
                  <<"Processing stopped due to critical error: ">> \o FailureText(p)
             /\ error'.kind = "message"
             /\ includes(error'.text, "Critical Error: ")
             /\ includes(error'.text, InvalidApiKey)
             /\ ~isLoading'
             /\ newResults'[p] = <<>>
       /\ pc'[p] = "aborted" => index'[p] = 0 /\ newResults'[p] = <<>>
    ]_vars

C1_Witness ==
  /\ pc[1] = "aborted"
  /\ Len(rows[1]) = 3
  /\ Len(results) = 1
  /\ error.kind = "message"
  /\ progress = [current |-> 1, total |-> 3]

\* C2: only record 0 can abort the run; a failure containing
\* 'Invalid API Key' on a record with index >= 1 is recorded as that
\* record's error outcome and the loop goes on; a run that completes has
\* attempted every record and publishes exactly one outcome per record.
C2_NoShortCircuitAfterFirst ==
  [][\A p \in Invocations :
       /\ (pc'[p] = "aborted" /\ pc[p] # "aborted") => index[p] = 0
       /\ (/\ FailedNow(p)
           /\ index[p] >= 1
           /\ includes(FailureText(p), InvalidApiKey))
          => /\ pc'[p] \in {"loop", "completed"}
             /\ Len(newResults'[p]) = index[p] + 1
             /\ IsErrorOutcome(newResults'[p][index[p] + 1])
             /\ newResults'[p][index[p] + 1].error = FailureText(p)
             /\ results' = newResults'[p]
       /\ (pc'[p] = "completed" /\ pc[p] # "completed")
          => /\ Len(results') = Len(rows[p])
             /\ results' = newResults'[p]
             /\ progress' = [current |-> Len(rows[p]), total |-> Len(rows[p])]
             /\ ~isLoading'
    ]_vars

C2_Witness ==
  /\ pc[1] = "completed"
  /\ Len(rows[1]) = 3
  /\ Len(results) = 3
  /\ ~IsErrorOutcome(results[1])
  /\ IsErrorOutcome(results[2])
  /\ includes(results[2].error, InvalidApiKey)

\* C3: a failure on a record (missing image reference, failed retrieval,
\* failed classification) that is not the critical one appends an error
\* outcome for that record carrying the failure's description, and the loop
\* moves to the next record or completes; an invocation only ever ends in
\* completed or aborted, and a completed one holds one outcome per record.
C3_FailuresAreOutcomes ==
  [][\A p \in Invocations :
       /\ (/\ FailedNow(p)
           /\ ~(index[p] = 0 /\ includes(FailureText(p), InvalidApiKey)))
          => /\ Len(newResults'[p]) = Len(newResults[p]) + 1
             /\ SubSeq(newResults'[p], 1, Len(newResults[p])) = newResults[p]
             /\ IsErrorOutcome(newResults'[p][Len(newResults'[p])])
             /\ newResults'[p][Len(newResults'[p])].error = FailureText(p)
             /\ newResults'[p][Len(newResults'[p])].originalData = row(p)
             /\ IF index[p] + 1 < Len(rows[p])
                THEN pc'[p] = "loop" /\ index'[p] = index[p] + 1
                ELSE pc'[p] = "completed"
       /\ pc[p] \in Running => pc'[p] \in Running \cup {"completed", "aborted"}
       /\ pc'[p] = "completed"
          => /\ Len(newResults'[p]) = Len(rows'[p])
             /\ \A k \in 1..Len(rows'[p]) : newResults'[p][k].originalData = rows'[p][k]
    ]_vars

C3_Witness ==
  /\ pc[1] = "completed"
  /\ Len(rows[1]) = 3
  /\ results = newResults[1]
  /\ \A k \in 1..3 : IsErrorOutcome(results[k])
  /\ results[1].error = <<"Failed to fetch">>
  /\ results[2].error = UnknownErrorText
  /\ results[3].error = MissingUrlText

\* C4: a step that completes record i without the short-circuit appends
\* that record's outcome to the local list and publishes the whole list:
\* the published list then has i+1 elements and its k-th element is the
\* outcome of input record k.
C4_OrderedFullRepublish ==
  [][\A p \in Invocations :
       CompletesRecord(p)
       => /\ newResults'[p] =
               Append(newResults[p], newResults'[p][Len(newResults'[p])])
          /\ results' = newResults'[p]
          /\ Len(results') = index[p] + 1
          /\ \A k \in 1..(index[p] + 1) : results'[k].originalData = rows[p][k]
    ]_vars

\* the sheet was re-fetched in mid-run (which empties the published list)
\* and the list published after that is again the full one
C4_Witness ==
  /\ pc[1] = "loop"
  /\ index[1] = 2
  /\ fetchPc = "fetch"
  /\ Len(results) = 2
  /\ results[1].originalData = rows[1][1]
  /\ results[2].originalData = rows[1][2]

\* C5: at most one invocation of the loop is alive, so at most one
\* collaborator call is in flight; while record n is being worked on
\* exactly the n records before it have their outcome recorded.
C5_StrictlySequential ==
  /\ Cardinality({p \in Invocations : pc[p] \in Running}) <= 1
  /\ Cardinality({p \in Invocations : pc[p] \in {"image", "validate"}}) <= 1
  /\ \A p \in Invocations :
       pc[p] \in Running => Len(newResults[p]) = index[p] /\ index[p] < Len(rows[p])

C5_Witness ==
  /\ pc[1] = "validate"
  /\ index[1] = 1
  /\ Len(newResults[1]) = 1
  /\ reply[1] = NoReply

\* C6: while a run is active the published list is never longer than the
\* run's record count and changes only by appending one element or by the
\* short-circuit's single-element replacement.
C6_AppendOnlyDuringRun ==
  [][\A p \in Invocations :
       pc[p] \in Running
       => /\ Len(results') <= Len(rows[p])
          /\ \/ results' = results
             \/ /\ Len(results') = Len(results) + 1
                /\ SubSeq(results', 1, Len(results)) = results
             \/ pc'[p] = "aborted" /\ Len(results') = 1
    ]_vars

\* C7: an invocation leaves Idle or a terminal state only by a start, which
\* enters the loop at index 0; Running is left only to Completed, when the
\* last record has its outcome, or to Aborted, when record 0 failed with an
\* 'Invalid API Key' description; the running flag is set exactly while an
\* invocation is Running.
C7_RunStateMachine ==
  [][/\ \A p \in Invocations :
          /\ pc[p] \in Running => pc'[p] \in Running \cup {"completed", "aborted"}
          /\ pc[p] \notin Running
             => \/ pc'[p] = pc[p]
                \/ pc'[p] = "loop" /\ index'[p] = 0 /\ Len(rows'[p]) > 0
          /\ (pc[p] \in Running /\ pc'[p] = "completed")
             => /\ index[p] = Len(rows[p]) - 1
                /\ Len(newResults'[p]) = Len(rows[p])
          /\ (pc[p] \in Running /\ pc'[p] = "aborted")
             => /\ index[p] = 0
                /\ FailedNow(p)
                /\ includes(FailureText(p), InvalidApiKey)
     /\ isLoading' = (\E p \in Invocations : pc'[p] \in Running)
    ]_vars

C7_Witness ==
  /\ pc[1] = "completed"
  /\ startedFrom[1] = "aborted"
  /\ ~isLoading
  /\ Len(newResults[1]) = 2

\* C8: a start accepted from Completed or Aborted empties the published
\* list and the local list, sets progress to (0, total), clears the error
\* banner and takes the current record set, before any record is attempted.
C8_StartResets ==
  [][\A p \in Invocations :
       (pc[p] \in {"completed", "aborted"} /\ pc'[p] \in Running)
       => /\ results' = <<>>
          /\ newResults'[p] = <<>>
          /\ progress' = [current |-> 0, total |-> Len(processedData)]
          /\ error' = NoError
          /\ rows'[p] = processedData
          /\ index'[p] = 0
          /\ pc'[p] = "loop"
    ]_vars

C8_Witness ==
  /\ pc[1] = "loop"
  /\ startedFrom[1] = "aborted"
  /\ index[1] = 0
  /\ progress.current = 0
  /\ results = <<>>
  /\ error = NoError

InputErrorExits == {"empty", "missing"}

\* C9: parsing a body with fewer than two lines, or whose first record lacks
\* a required key, sets an error (naming every required key the first
\* record lacks), leaves the record set empty; from then until the next
\* fetch no start command enters Running or changes the published list.
C9_InputErrorBlocks ==
  [][/\ (fetchPc = "text" /\ fetchPc' \notin {"text", "failed"})
        => LET lines == split(trim(response), "\n")
               first == parseRows(parseHeaders(lines[1]), lines)[1]
               lacking == {c \in Range(requiredColumns) : c \notin DOMAIN first}
           IN /\ Len(lines) < 2
                 => /\ fetchPc' = "empty"
                    /\ processedData' = <<>>
                    /\ error'.kind = "message"
              /\ (Len(lines) >= 2 /\ lacking # {})
                 => /\ fetchPc' = "missing"
                    /\ processedData' = <<>>
                    /\ error'.kind = "missingColumns"
                    /\ lacking \subseteq Range(error'.columns)
     /\ fetchPc' \in InputErrorExits => processedData' = <<>>
     /\ (fetchPc \in InputErrorExits /\ fetchPc' = fetchPc /\ ~isLoading)
        => /\ ~isLoading'
           /\ pc' = pc
           /\ results' = results
    ]_vars

\* a start command was issued after the missing-columns error
C9_Witness ==
  /\ fetchPc = "missing"
  /\ error = Message(NoDataText)
  /\ processedData = <<>>
  /\ ~isLoading
  /\ results = <<>>

\* C10: every accepted record, not only the first, has all six required
\* keys, also when its line has fewer fields than there are headers.
C10_RequiredKeysInEveryRecord ==
  \A i \in 1..Len(processedData) :
    \A c \in Range(requiredColumns) : c \in DOMAIN processedData[i]

C10_Witness ==
  /\ Len(processedData) = 3
  /\ processedData[3][K_name] = <<"C">>
  /\ processedData[3][K_paymentScreenshotUrl] = <<>>

BlankUrl(r) ==
  \/ K_paymentScreenshotUrl \notin DOMAIN r
  \/ \A i \in 1..Len(r[K_paymentScreenshotUrl]) : r[K_paymentScreenshotUrl][i] \in Whitespace

\* C12: a record whose proof-image URL is absent or blank gets the
\* missing-reference error in the step that starts it, and no invocation is
\* ever waiting for image retrieval or classification on such a record.
C12_BlankUrlNoCollaboratorCall ==
  [][\A p \in Invocations :
       /\ (pc[p] = "loop" /\ BlankUrl(rows[p][index[p] + 1]))
          => /\ pc'[p] \in {"loop", "completed"}
             /\ Len(newResults'[p]) = index[p] + 1
             /\ "error" \in DOMAIN newResults'[p][index[p] + 1]
             /\ newResults'[p][index[p] + 1].error = MissingUrlText
             /\ newResults'[p][index[p] + 1].originalData = rows[p][index[p] + 1]
       /\ pc'[p] \in {"image", "validate"} => ~BlankUrl(rows'[p][index'[p] + 1])
    ]_vars

C12_Witness ==
  /\ pc[1] = "image"
  /\ index[1] = 1
  /\ Len(newResults[1]) = 1
  /\ BlankUrl(rows[1][1])
  /\ newResults[1][1].error = MissingUrlText

\* the header cells of a sheet text, as they are handed to normalizeHeader
HeaderCells(text) ==
  LET cells == split(split(trim(text), "\n")[1], ",")
  IN {stripQuotes(cells[i]) : i \in 1..Len(cells)}

\* C13: normalizing a normalized header changes nothing, for every header
\* of a fetched sheet, and every key of an accepted record is its own
\* normal form.
C13_NormalizeIdempotent ==
  /\ \A h \in HeaderCells(response) :
       normalizeHeader(normalizeHeader(h)) = normalizeHeader(h)
  /\ \A i \in 1..Len(processedData) : \A k \in DOMAIN processedData[i] :
       normalizeHeader(k) = k

\* the raw fields of a line read left to right: a quote toggles the quoted
\* state and a comma separates only outside quotes
RECURSIVE FieldsByScan(_, _, _, _)
FieldsByScan(s, i, quoted, field) ==
  IF i > Len(s) THEN <<field>>
  ELSE IF s[i] = "," /\ ~quoted THEN <<field>> \o FieldsByScan(s, i + 1, FALSE, <<>>)
  ELSE FieldsByScan(s, i + 1, IF s[i] = "\"" THEN ~quoted ELSE quoted, Append(field, s[i]))

QuotesBalanced(s) ==
  Cardinality({i \in 1..Len(s) : s[i] = "\""}) % 2 = 0

VerdictCount(status) ==
  Cardinality({k \in 1..Len(results) :
                 /\ "validation" \in DOMAIN results[k]
                 /\ results[k].validation.Validation_Status = status})

\* the outcomes with an error text (an empty text does not count as one)
ErrorCount ==
  Cardinality({k \in 1..Len(results) :
                 "error" \in DOMAIN results[k] /\ results[k].error # <<>>})

EveryOutcomeCategorised ==
  \A k \in 1..Len(results) :
    \/ "error" \in DOMAIN results[k] /\ results[k].error # <<>>
    \/ /\ "validation" \in DOMAIN results[k]
       /\ results[k].validation.Validation_Status
            \in {"Receipt Validated", "Mismatch Found", NotReadableStatus}

\* C15: the tally of the published list counts, per bucket, the outcomes
\* of that verdict category (for Error: the outcomes with an error); the
\* when every outcome has an error text or a verdict of the three categories
\* of the ValidationResponse type, the four counts add up to the length of
\* the list; the chart holds exactly the buckets with a positive count.
C15_TallyMatchesCategories ==
  LET counts == tallyCounts(results)
  IN /\ counts.validated = VerdictCount("Receipt Validated")
     /\ counts.mismatch = VerdictCount("Mismatch Found")
     /\ counts.review = VerdictCount(NotReadableStatus)
     /\ counts.error = ErrorCount
     /\ EveryOutcomeCategorised
        => counts.validated + counts.mismatch + counts.review + counts.error = Len(results)
     /\ {item.name : item \in Range(chartData(results))} =
          {b \in {"Validated", "Mismatch", "Needs Review", "Error"} :
             \/ b = "Validated" /\ VerdictCount("Receipt Validated") > 0
             \/ b = "Mismatch" /\ VerdictCount("Mismatch Found") > 0
             \/ b = "Needs Review" /\ VerdictCount(NotReadableStatus) > 0
             \/ b = "Error" /\ ErrorCount > 0}

\* a text with every quote character written twice, by position
Doubled(text) ==
  LET before(i) == Cardinality({k \in 1..(i - 1) : text[k] = "\""})
      width(i) == IF text[i] = "\"" THEN 2 ELSE 1
  IN [j \in 1..(Len(text) + before(Len(text) + 1)) |->
        text[CHOOSE i \in 1..Len(text) :
               i + before(i) <= j /\ j < i + before(i) + width(i)]]

\* C16: the compact table has one row per published outcome, in order; a
\* row's status is the verdict category, or "Processing Error" without a
\* verdict; its observations are the verdict's observation text, or the
\* error text without a verdict, with every quote doubled; its timestamp is
\* the outcome's.
C16_CompactTable ==
  LET table == copyResultsForSheet(results)
  IN /\ Len(table) = Len(results)
     /\ \A k \in 1..Len(results) :
          /\ table[k].timestamp = results[k].timestamp
          /\ IF "validation" \in DOMAIN results[k]
             THEN /\ table[k].status = results[k].validation.Validation_Status
                  /\ table[k].observations = Doubled(results[k].validation.Observations)
             ELSE /\ table[k].status = "Processing Error"
                  /\ table[k].observations = Doubled(results[k].error)

C16_Witness ==
  /\ ~isLoading
  /\ Len(results) = 2
  /\ "error" \in DOMAIN results[1]
  /\ results[1].error = MissingUrlText
  /\ "validation" \in DOMAIN results[2]
  /\ results[2].validation.Observations = <<"amount ", "\"", "2", "\"">>

\* C17: while a run is active the progress counter and the published list
\* change only in steps of the run's own loop.
C17_OnlyTheLoopPublishes ==
  [][((\E p \in Invocations : pc[p] \in Running)
        /\ <<results, progress>>' # <<results, progress>>)
       => runVars' # runVars
    ]_vars

\* C18: a missing image reference or a failed image retrieval always ends
\* as the record's error outcome, also on record 0; a run is aborted only
\* from a failed classification of record 0 whose description contains
\* 'Invalid API Key'.
C18_OnlyClassificationAborts ==
  [][\A p \in Invocations :
       /\ (pc[p] \in {"loop", "image"} /\ FailedNow(p))
          => /\ pc'[p] \in {"loop", "completed"}
             /\ Len(newResults'[p]) = index[p] + 1
             /\ IsErrorOutcome(newResults'[p][index[p] + 1])
       /\ (pc'[p] = "aborted" /\ pc[p] # "aborted")
          => /\ pc[p] = "validate"
             /\ index[p] = 0
             /\ reply[p].state = "rejected"
             /\ includes(errorMessageOf(reply[p].thrown), InvalidApiKey)
    ]_vars

\* C19: while record i is in flight the progress counter is (i+1, total)
\* with total the number of records the run started with, the published
\* list has exactly i elements and 1 <= current <= total; a run that
\* completes ends with current = total = number of published outcomes.
C19_ProgressTracksLoop ==
  [][\A p \in Invocations :
       /\ pc'[p] \in {"image", "validate"}
          => /\ progress' = [current |-> index'[p] + 1, total |-> Len(rows'[p])]
             /\ Len(results') = index'[p]
             /\ 1 <= progress'.current /\ progress'.current <= progress'.total
       /\ (pc'[p] = "completed" /\ pc[p] # "completed")
          => /\ progress'.current = progress'.total
             /\ progress'.total = Len(results')
             /\ progress'.total = Len(rows[p])
    ]_vars

\* C20: when every dispatched image retrieval and classification settles,
\* a run that is Running eventually is completed or aborted with the
\* running flag cleared.
C20_RunTerminates ==
  \A p \in Invocations :
    (pc[p] \in Running) ~> (pc[p] \in {"completed", "aborted"} /\ ~isLoading)

C20_Witness ==
  /\ pc[1] = "completed"
  /\ ~isLoading
  /\ Len(rows[1]) = 3
  /\ Len(newResults[1]) = 3
  /\ reply[1] = NoReply
  /\ progress = [current |-> 3, total |-> 3]

\* C21: a start is accepted only when no invocation is Running, the
\* running flag is clear and the record set is not empty; the run it
\* begins takes that record set, and at no time are two invocations
\* Running.
C21_SingleActiveRun ==
  [][/\ \A p \in Invocations :
          (pc[p] \notin Running /\ pc'[p] \in Running)
          => /\ ~isLoading
             /\ \A q \in Invocations : pc[q] \notin Running
             /\ Len(processedData) > 0
             /\ rows'[p] = processedData
             /\ isLoading'
     /\ \A p, q \in Invocations :
          (pc'[p] \in Running /\ pc'[q] \in Running) => p = q
    ]_vars

\* a second run is active on a record set that is still there, and no
\* other invocation was ever started beside it
C21_Witness ==
  /\ pc[1] = "image"
  /\ startedFrom[1] = "completed"
  /\ isLoading
  /\ Len(processedData) > 0
  /\ \A q \in Invocations : q # 1 => pc[q] = "none"
====
